---- MODULE Spec2Model ----
(***************************************************************************)
(* PolyArb: the opportunity-detection engine (scanner.js), the market      *)
(* grouper (polymarket.js) and the continuous watcher (watcher.js).        *)
(*                                                                         *)
(* Numbers.  Prices, costs and edges are JavaScript numbers.  The model    *)
(* keeps them as fixed-point hundredths (ONE = 1.00) together with the     *)
(* one non-numeric value the code can produce, NaN (parseFloat of text     *)
(* that does not start with a number, or of undefined).  A quotient such   *)
(* as the correlated edge (minPayout - cost) / n is kept as the pair       *)
(* numerator, denominator.  Binary rounding of doubles is not modelled.    *)
(***************************************************************************)
EXTENDS Integers, Sequences, FiniteSets, TLC

\* 1.0 in hundredths: the unit payout, and the 1 of "1 - totalCost".
ONE == 100

----------------------------------------------------------------------------
(* JavaScript numbers *)

Num(v) == [nan |-> FALSE, num |-> v, den |-> 1]
NaN == [nan |-> TRUE, num |-> 0, den |-> 1]

\* a + b
Add(a, b) == IF a.nan \/ b.nan THEN NaN ELSE Num(a.num + b.num)
\* a - b
Sub(a, b) == IF a.nan \/ b.nan THEN NaN ELSE Num(a.num - b.num)
\* a / n for a positive integer n (kept exact, as a fraction)
DivBy(a, n) == IF a.nan THEN NaN ELSE [nan |-> FALSE, num |-> a.num, den |-> n]
\* a <= 0, a > 0, a >= m: every comparison with NaN is false
LeqZero(a) == ~a.nan /\ a.num <= 0
GtZero(a) == ~a.nan /\ a.num > 0
Geq(a, m) == ~a.nan /\ a.num >= m * a.den
\* a.edge >= b.edge for two fractions with positive denominators
GeqNum(a, b) == ~a.nan /\ ~b.nan /\ a.num * b.den >= b.num * a.den

\* prices.reduce((a, b) => a + b, 0)
RECURSIVE SumNums(_)
SumNums(s) == IF s = <<>> THEN Num(0) ELSE Add(SumNums(SubSeq(s, 1, Len(s) - 1)), s[Len(s)])

----------------------------------------------------------------------------
(* Price entries: one element of outcomePrices, or a yes_price / no_price  *)
(* field.                                                                  *)
(*   absent : undefined, null, or the empty string                         *)
(*   num    : a JavaScript number v                                        *)
(*   text   : numeric text such as "0.15", worth v                         *)
(*   junk   : non-empty text that does not start with a number             *)

Absent == [kind |-> "absent", v |-> 0]
NumE(v) == [kind |-> "num", v |-> v]
TextE(v) == [kind |-> "text", v |-> v]
Junk == [kind |-> "junk", v |-> 0]

\* JavaScript truthiness of an entry: undefined, null, "" and the number 0
\* are falsy, every non-empty string (also "0") is truthy.
Truthy(e) == e.kind \in {"text", "junk"} \/ (e.kind = "num" /\ e.v # 0)

\* parseFloat(e)
parseFloat(e) == IF e.kind \in {"num", "text"} THEN Num(e.v) ELSE NaN

\* parseFloat(a || b || 0.5)
ParseOr3(a, b) == IF Truthy(a) THEN parseFloat(a)
                  ELSE IF Truthy(b) THEN parseFloat(b)
                  ELSE Num(ONE \div 2)

\* parseFloat(a || 0.5)
ParseOr2(a) == IF Truthy(a) THEN parseFloat(a) ELSE Num(ONE \div 2)

(* The outcomePrices field.                                                *)
(*   array   : a literal sequence of entries                               *)
(*   text    : a string holding a JSON array that decodes to items         *)
(*   badtext : a string JSON.parse rejects, or that decodes to a non-array *)
(*   absent  : undefined, null, or any other non-array non-string value    *)
ArrayP(items) == [kind |-> "array", items |-> items]
TextP(items) == [kind |-> "text", items |-> items]
BadTextP == [kind |-> "badtext", items |-> <<>>]
AbsentP == [kind |-> "absent", items |-> <<>>]

\* market.outcomePrices?.[i] for i = 0, 1 (i here is the 1-based position).
\* Indexing a string yields one character: "[" at 0, and at 1 the opening
\* quote of the first element, or its first digit when it is a bare number.
OptIndex(p, i) ==
    CASE p.kind = "array" -> IF i <= Len(p.items) THEN p.items[i] ELSE Absent
      [] p.kind = "text" ->
            IF i = 2 /\ p.items # <<>> /\ p.items[1].kind = "num"
            THEN TextE(IF p.items[1].v >= ONE THEN ONE ELSE 0)
            ELSE Junk
      [] p.kind = "badtext" -> Junk
      [] OTHER -> Absent

----------------------------------------------------------------------------
(* Text.  A string is a sequence of one-character strings.  A question is  *)
(* a sequence of words (maximal runs of word characters) written with one  *)
(* space between neighbours, so the word boundaries \b of the regular       *)
(* expressions are exactly the ends of the words.                          *)

\* String.prototype.substring(0, 50) in extractBaseEvent
KEY_MAX == 50

Digits == {"0", "1", "2", "3", "4", "5", "6", "7", "8", "9"}

\* the i flag of the regular expressions: letters compare in lower case
LowerChar(c) ==
    CASE c = "A" -> "a" [] c = "B" -> "b" [] c = "I" -> "i" [] c = "J" -> "j"
      [] c = "M" -> "m" [] c = "N" -> "n" [] c = "O" -> "o" [] c = "S" -> "s"
      [] c = "U" -> "u" [] c = "Y" -> "y" [] OTHER -> c

Lower(w) == [i \in 1..Len(w) |-> LowerChar(w[i])]

AllDigits(w) == \A i \in 1..Len(w) : w[i] \in Digits

\* (by|before|after|in|on)
PREPOSITIONS == {<<"b", "y">>, <<"b", "e", "f", "o", "r", "e">>, <<"a", "f", "t", "e", "r">>, <<"i", "n">>, <<"o", "n">>}

\* (january|february|...|december)
MONTHS == {<<"j", "a", "n", "u", "a", "r", "y">>,
           <<"f", "e", "b", "r", "u", "a", "r", "y">>,
           <<"m", "a", "r", "c", "h">>,
           <<"a", "p", "r", "i", "l">>,
           <<"m", "a", "y">>,
           <<"j", "u", "n", "e">>,
           <<"j", "u", "l", "y">>,
           <<"a", "u", "g", "u", "s", "t">>,
           <<"s", "e", "p", "t", "e", "m", "b", "e", "r">>,
           <<"o", "c", "t", "o", "b", "e", "r">>,
           <<"n", "o", "v", "e", "m", "b", "e", "r">>,
           <<"d", "e", "c", "e", "m", "b", "e", "r">>}

\* (st|nd|rd|th)
ORDINAL_SUFFIXES == {<<"s", "t">>, <<"n", "d">>, <<"r", "d">>, <<"t", "h">>}

\* \b(by|before|after|in|on) followed by \s+
IsPreposition(w) == Lower(w) \in PREPOSITIONS

\* (month|\d{1,2}|\d{4})\b : the whole word is a month name, or one, two or
\* four digits
IsDateWord(w) ==
    \/ Lower(w) \in MONTHS
    \/ (Len(w) \in {1, 2, 4} /\ AllDigits(w))

\* \b\d{1,2}(st|nd|rd|th)?\b : the whole word is one or two digits with an
\* optional ordinal suffix
IsOrdinal(w) ==
    \/ (Len(w) \in {1, 2} /\ AllDigits(w))
    \/ (/\ Len(w) \in {3, 4}
        /\ AllDigits(SubSeq(w, 1, Len(w) - 2))
        /\ Lower(SubSeq(w, Len(w) - 1, Len(w))) \in ORDINAL_SUFFIXES)

\* \b(yes|no)\b
IsYesNo(w) == Lower(w) \in {<<"y", "e", "s">>, <<"n", "o">>}

\* the first replace with the month names missing from its alternation
RECURSIVE StripDatePhrasesDigitsOnly(_)
StripDatePhrasesDigitsOnly(ws) ==
    IF ws = <<>> THEN <<>>
    ELSE IF Len(ws) >= 2 /\ IsPreposition(ws[1]) /\ AllDigits(ws[2]) /\ Len(ws[2]) \in {1, 2, 4}
         THEN StripDatePhrasesDigitsOnly(SubSeq(ws, 3, Len(ws)))
         ELSE <<ws[1]>> \o StripDatePhrasesDigitsOnly(Tail(ws))

\* first replace: leftmost, non-overlapping matches of a preposition word
\* followed by a date word are deleted
RECURSIVE StripDatePhrases(_)
StripDatePhrases(ws) ==
    IF ws = <<>> THEN <<>>
    ELSE IF Len(ws) >= 2 /\ IsPreposition(ws[1]) /\ IsDateWord(ws[2])
         THEN StripDatePhrases(SubSeq(ws, 3, Len(ws)))
         ELSE <<ws[1]>> \o StripDatePhrases(Tail(ws))

\* second replace: the ordinal and day-number words are deleted
DropOrdinals(ws) == SelectSeq(ws, LAMBDA w : ~IsOrdinal(w))

\* third replace: the words yes and no are deleted
DropYesNo(ws) == SelectSeq(ws, LAMBDA w : ~IsYesNo(w))

\* the words written out with one space between neighbours: what
\* .replace(/\s+/g, ' ').trim() leaves of the text around the deleted words
RECURSIVE JoinWords(_)
JoinWords(ws) ==
    IF ws = <<>> THEN <<>>
    ELSE IF Len(ws) = 1 THEN ws[1]
    ELSE ws[1] \o <<" ">> \o JoinWords(Tail(ws))

\* .substring(0, n)
Substring(s, n) == SubSeq(s, 1, IF Len(s) < n THEN Len(s) ELSE n)

\* extractBaseEvent(question)
extractBaseEvent(question) ==
    Substring(JoinWords(DropYesNo(DropOrdinals(StripDatePhrases(question)))), KEY_MAX)

----------------------------------------------------------------------------
(* Markets.  A market record keeps the fields the rules read:              *)
(*   id            0 when the field is absent (falsy)                      *)
(*   question      the words of the question, << >> when absent or empty   *)
(*   outcomes      outcomes.length, 0 when the field is absent             *)
(*   outcomePrices, yes_price, no_price                                    *)
(* title, volume and the strategy text take no part in any decision and    *)
(* are left out.                                                           *)

Market(id, q, n, p, y, no) ==
    [id |-> id, question |-> q, outcomes |-> n, outcomePrices |-> p,
     yes_price |-> y, no_price |-> no]

\* Property names every plain object ({}) inherits from Object.prototype:
\* groups[key] is a truthy non-array for them although nothing was stored.
OBJECT_PROTOTYPE_KEYS == {<<"c", "o", "n", "s", "t", "r", "u", "c", "t", "o", "r">>, <<"t", "o", "S", "t", "r", "i", "n", "g">>, <<"v", "a", "l", "u", "e", "O", "f">>}

\* the distinct canonical keys of the markets, in first-seen order
RECURSIVE FirstSeenKeys(_)
FirstSeenKeys(markets) ==
    IF markets = <<>> THEN <<>>
    ELSE LET init == FirstSeenKeys(SubSeq(markets, 1, Len(markets) - 1))
             k == extractBaseEvent(markets[Len(markets)].question)
         IN IF \E i \in 1..Len(init) : init[i] = k THEN init ELSE Append(init, k)

\* An integer-like property name ("7", "2026"): Object.entries lists these
\* first, in ascending numeric order, before the other names.
IsIndexKey(k) == k # <<>> /\ Len(k) <= 9 /\ AllDigits(k) /\ (Len(k) = 1 \/ k[1] # "0")

DigitVal(c) ==
    CASE c = "0" -> 0 [] c = "1" -> 1 [] c = "2" -> 2 [] c = "3" -> 3 [] c = "4" -> 4
      [] c = "5" -> 5 [] c = "6" -> 6 [] c = "7" -> 7 [] c = "8" -> 8 [] OTHER -> 9

RECURSIVE IndexVal(_)
IndexVal(k) == IF k = <<>> THEN 0
               ELSE 10 * IndexVal(SubSeq(k, 1, Len(k) - 1)) + DigitVal(k[Len(k)])

\* the sequence s ordered by ascending numeric value (insertion sort)
RECURSIVE SortIndexKeys(_)
SortIndexKeys(s) ==
    IF s = <<>> THEN <<>>
    ELSE LET rest == SortIndexKeys(Tail(s))
             lo == SelectSeq(rest, LAMBDA k : IndexVal(k) < IndexVal(s[1]))
             hi == SelectSeq(rest, LAMBDA k : IndexVal(k) >= IndexVal(s[1]))
         IN lo \o <<s[1]>> \o hi

\* Object.entries(groups): the property names in enumeration order
EntriesOrder(keys) ==
    SortIndexKeys(SelectSeq(keys, IsIndexKey)) \o SelectSeq(keys, LAMBDA k : ~IsIndexKey(k))

\* groups[baseEvent].push(market) raises TypeError when the name is inherited
GroupingThrows(markets) ==
    \E i \in 1..Len(markets) : extractBaseEvent(markets[i].question) \in OBJECT_PROTOTYPE_KEYS

\* the bucket of one key: the markets with that key, in input order
Bucket(markets, k) == SelectSeq(markets, LAMBDA m : extractBaseEvent(m.question) = k)

\* findRelatedMarkets(markets): threw, or the groups with more than one market
findRelatedMarkets(markets) ==
    IF GroupingThrows(markets) THEN [threw |-> TRUE, groups |-> <<>>]
    ELSE LET order == EntriesOrder(FirstSeenKeys(markets))
             kept == SelectSeq(order, LAMBDA k : Len(Bucket(markets, k)) > 1)
         IN [threw |-> FALSE,
             groups |-> [i \in 1..Len(kept) |->
                            [event |-> kept[i], markets |-> Bucket(markets, kept[i])]]]

----------------------------------------------------------------------------
(* The three detection rules of the scanner.  A rule returns null          *)
(* (NoSignal) or an Opportunity.                                           *)

UNKNOWN_MARKET == <<"U", "n", "k", "n", "o", "w", "n", " ", "M", "a", "r", "k", "e", "t">>

NoSignal ==
    [signal |-> FALSE, type |-> "none", name |-> <<>>, edge |-> Num(0), cost |-> Num(0),
     payout |-> Num(0), prices |-> <<>>, marketCount |-> 0]

Opportunity(type, name, edge, cost, payout, prices, count) ==
    [signal |-> TRUE, type |-> type, name |-> name, edge |-> edge, cost |-> cost,
     payout |-> payout, prices |-> prices, marketCount |-> count]

\* market.question || market.title || 'Unknown Market'
MarketName(market) ==
    IF market.question # <<>> THEN JoinWords(market.question) ELSE UNKNOWN_MARKET

\* detectBasicArb(market)
detectBasicArb(market) ==
    LET yesPrice == ParseOr3(OptIndex(market.outcomePrices, 1), market.yes_price)
        noPrice == ParseOr3(OptIndex(market.outcomePrices, 2), market.no_price)
        totalCost == Add(yesPrice, noPrice)
        edge == Sub(Num(ONE), totalCost)
    IN IF LeqZero(edge) THEN NoSignal
       ELSE Opportunity("BASIC_ARB", MarketName(market), edge, totalCost, Num(ONE),
                        <<yesPrice, noPrice>>, 1)

\* detectCorrelatedArb(group)
detectCorrelatedArb(group) ==
    LET markets == group.markets
        n == Len(markets)
        noPrices == [i \in 1..n |->
                        ParseOr3(OptIndex(markets[i].outcomePrices, 2), markets[i].no_price)]
        totalNoCost == SumNums(noPrices)
        minPayout == Num((n - 1) * ONE)
        edge == DivBy(Sub(minPayout, totalNoCost), n)
    IN IF n < 2 THEN NoSignal
       ELSE IF LeqZero(edge) THEN NoSignal
       ELSE Opportunity("CORRELATED_DATE_ARB", group.event, edge, totalNoCost, minPayout,
                        noPrices, n)

\* detectMutuallyExclusiveArb(market)
detectMutuallyExclusiveArb(market) ==
    LET p == market.outcomePrices
        prices == [i \in 1..Len(p.items) |-> parseFloat(p.items[i])]
        totalCost == SumNums(prices)
        edge == Sub(Num(ONE), totalCost)
    IN IF market.outcomes < 3 THEN NoSignal
       ELSE IF p.kind \notin {"array", "text"} THEN NoSignal
       ELSE IF Len(prices) # market.outcomes THEN NoSignal
       ELSE IF LeqZero(edge) THEN NoSignal
       ELSE Opportunity("MUTUALLY_EXCLUSIVE_ARB", MarketName(market), edge, totalCost,
                        Num(ONE), prices, 1)

----------------------------------------------------------------------------
(* scan() of the scanner: the three rules over the fetched markets, the    *)
(* threshold, the sort.                                                    *)

\* const MIN_EDGE = 0.02 (scanner.js), in hundredths
SCAN_MIN_EDGE == 2

\* if (arb && arb.edge >= MIN_EDGE) opportunities.push(arb), over a list of
\* rule results
KeepAboveEdge(results) ==
    SelectSeq(results, LAMBDA arb : arb.signal /\ Geq(arb.edge, SCAN_MIN_EDGE))

\* a sort with the comparator the wrong way round: (a, b) => a.edge - b.edge
RECURSIVE SortByEdgeAscending(_)
SortByEdgeAscending(opps) ==
    IF opps = <<>> THEN <<>>
    ELSE LET rest == SortByEdgeAscending(SubSeq(opps, 1, Len(opps) - 1))
             last == opps[Len(opps)]
         IN SelectSeq(rest, LAMBDA o : GeqNum(last.edge, o.edge)) \o <<last>>
            \o SelectSeq(rest, LAMBDA o : ~GeqNum(last.edge, o.edge))

\* opportunities.sort((a, b) => b.edge - a.edge): the stable sort of the
\* engine, as an insertion sort that puts each element behind the elements
\* whose edge is not smaller
RECURSIVE SortByEdge(_)
SortByEdge(opps) ==
    IF opps = <<>> THEN <<>>
    ELSE LET rest == SortByEdge(SubSeq(opps, 1, Len(opps) - 1))
             last == opps[Len(opps)]
         IN SelectSeq(rest, LAMBDA o : GeqNum(o.edge, last.edge)) \o <<last>>
            \o SelectSeq(rest, LAMBDA o : ~GeqNum(o.edge, last.edge))

\* scan() from the markets on: threw when the for-of over a response that is
\* no array or findRelatedMarkets raises, else the opportunities list
scan(iterable, markets) ==
    LET basic == KeepAboveEdge([i \in 1..Len(markets) |-> detectBasicArb(markets[i])])
        related == findRelatedMarkets(markets)
        correlated ==
            KeepAboveEdge([i \in 1..Len(related.groups) |->
                              detectCorrelatedArb(related.groups[i])])
        multiOutcome == SelectSeq(markets, LAMBDA m : m.outcomes > 2)
        exclusive ==
            KeepAboveEdge([i \in 1..Len(multiOutcome) |->
                              detectMutuallyExclusiveArb(multiOutcome[i])])
    IN IF ~iterable \/ related.threw
       THEN [threw |-> TRUE, opportunities |-> <<>>]
       ELSE [threw |-> FALSE,
             opportunities |-> SortByEdge(basic \o correlated \o exclusive)]

----------------------------------------------------------------------------
(* The watcher's own scan (watchCycle), which does not call the rules       *)
(* above but computes the basic and the correlated edge inline.            *)

\* const MIN_EDGE = 0.03 (watcher.js), in hundredths
MIN_EDGE == 3
\* seenOpportunities.size > 1000
CACHE_LIMIT == 1000
\* markets?closed=false&limit=500: the most markets one fetch returns
FETCH_LIMIT == 500

\* an identity key: `basic:${market.id || market.question}` or
\* `correlated:${group.event}`; id is 0 when the key is made from text
Key(type, id, text) == [type |-> type, id |-> id, text |-> text]

UNDEFINED == <<"u", "n", "d", "e", "f", "i", "n", "e", "d">>

\* `basic:${market.id || market.question}`
BasicKey(market) ==
    IF market.id # 0 THEN Key("basic", market.id, <<>>)
    ELSE IF market.question # <<>> THEN Key("basic", 0, JoinWords(market.question))
    ELSE Key("basic", 0, UNDEFINED)

WatchOpp(id, type, edge) == [id |-> id, type |-> type, edge |-> edge]

\* the edge of one market in the basic loop of watchCycle
WatchBasicEdge(market) ==
    LET yesPrice == ParseOr2(OptIndex(market.outcomePrices, 1))
        noPrice == ParseOr2(OptIndex(market.outcomePrices, 2))
    IN Sub(Num(ONE), Add(yesPrice, noPrice))

\* the basic loop of watchCycle: one opportunity per market whose edge is at
\* least MIN_EDGE, in the order of the markets
RECURSIVE WatchBasicScan(_)
WatchBasicScan(ms) ==
    IF ms = <<>> THEN <<>>
    ELSE (IF Geq(WatchBasicEdge(ms[1]), MIN_EDGE)
          THEN <<WatchOpp(BasicKey(ms[1]), "BASIC", WatchBasicEdge(ms[1]))>>
          ELSE <<>>) \o WatchBasicScan(Tail(ms))

\* the edge of one group in the correlated loop of watchCycle
WatchCorrelatedEdge(group) ==
    LET n == Len(group.markets)
        noPrices == [i \in 1..n |-> ParseOr2(OptIndex(group.markets[i].outcomePrices, 2))]
    IN DivBy(Sub(Num((n - 1) * ONE), SumNums(noPrices)), n)

\* the correlated loop of watchCycle
RECURSIVE WatchCorrelatedScan(_)
WatchCorrelatedScan(groups) ==
    IF groups = <<>> THEN <<>>
    ELSE (IF Len(groups[1].markets) >= 2 /\ Geq(WatchCorrelatedEdge(groups[1]), MIN_EDGE)
          THEN <<WatchOpp(Key("correlated", 0, groups[1].event), "CORRELATED",
                          WatchCorrelatedEdge(groups[1]))>>
          ELSE <<>>) \o WatchCorrelatedScan(Tail(groups))

\* the words the questions of the model are written with
W_IRAN == <<"I", "r", "a", "n">>
W_BY == <<"b", "y">>
W_IN == <<"i", "n">>
W_MARCH == <<"M", "a", "r", "c", "h">>
W_APRIL == <<"A", "p", "r", "i", "l">>
W_JUNE == <<"J", "u", "n", "e">>
W_MAY == <<"m", "a", "y">>
W_2026 == <<"2", "0", "2", "6">>
W_15 == <<"1", "5">>
W_3RD == <<"3", "r", "d">>
W_YES == <<"y", "e", "s">>
W_BITCOIN == <<"B", "i", "t", "c", "o", "i", "n">>
W_CONSTRUCTOR == <<"c", "o", "n", "s", "t", "r", "u", "c", "t", "o", "r">>
W_LONG == <<"i", "n", "t", "e", "r", "n", "a", "t", "i", "o", "n", "a", "l", "i", "z", "a", "t", "i", "o", "n">>

\* the sequences over S of length 0..n
SeqsUpTo(S, n) == UNION {[1..k -> S] : k \in 0..n}

(* What getMarkets resolves to.  A response is the parsed JSON body:       *)
(*   iterable = FALSE : not an array (an error object), which the basic    *)
(*                      loop cannot iterate                                *)
(*   focus            : the markets, when there are few                    *)
(*   batch            : 0, or the number b of a full page of FETCH_LIMIT   *)
(*                      markets with ids of their own, each priced as      *)
(*                      BatchMarket and each with a question that no other *)
(*                      market shares and that is no inherited property    *)
(*                      name                                               *)
(* The FETCH_LIMIT identity keys of page b are kept as the one entry       *)
(* BatchKey(b) wherever keys are kept: the report loop handles a page in   *)
(* one step, so a set of keys holds all keys of a page or none of them.    *)

\* most markets in a listed response
MaxMarkets == 2
\* number of different full pages
NumBatches == 2

Feed(iterable, focus, batch) == [iterable |-> iterable, focus |-> focus, batch |-> batch]
NoFeed == Feed(TRUE, <<>>, 0)

\* a market of page b (its id and question are its own)
BatchMarket(b) ==
    Market(b * FETCH_LIMIT, <<>>, 2, ArrayP(<<TextE(45), TextE(50)>>), Absent, Absent)
\* the keys `basic:${market.id}` of the markets of page b
BatchKey(b) == Key("batch", b, <<>>)

\* Set.prototype.size of a set of keys
RECURSIVE TrackerSize(_)
TrackerSize(S) ==
    IF S = {} THEN 0
    ELSE LET k == CHOOSE x \in S : TRUE
         IN (IF k.type = "batch" THEN FETCH_LIMIT ELSE 1) + TrackerSize(S \ {k})

\* the markets the watcher's responses are made of
\* (IranMarch has a third outcome priced 0.01: its prices sum to 0.96)
IranMarch == Market(1, <<W_IRAN, W_BY, W_MARCH, W_2026>>, 3,
                    ArrayP(<<TextE(45), TextE(50), TextE(1)>>), Absent, Absent)
IranApril == Market(2, <<W_IRAN, W_BY, W_APRIL, W_2026>>, 2,
                    ArrayP(<<TextE(60), TextE(40)>>), Absent, Absent)
Constructor == Market(3, <<W_CONSTRUCTOR>>, 2,
                      ArrayP(<<TextE(50), TextE(50)>>), Absent, Absent)

WatchMarkets == {IranMarch, IranApril, Constructor}

Feeds ==
    {Feed(TRUE, ms, 0) : ms \in SeqsUpTo(WatchMarkets, MaxMarkets)}
    \cup {Feed(TRUE, <<>>, b) : b \in 1..NumBatches}
    \cup {Feed(FALSE, <<>>, 0)}

\* the opportunities of a full page, kept as one entry of the list
BatchOpp(b) == WatchOpp(BatchKey(b), "BATCH", WatchBasicEdge(BatchMarket(b)))

\* the basic loop over a response
BasicLoop(feed) ==
    WatchBasicScan(feed.focus)
    \o (IF feed.batch # 0 /\ Geq(WatchBasicEdge(BatchMarket(feed.batch)), MIN_EDGE)
        THEN <<BatchOpp(feed.batch)>> ELSE <<>>)

\* the identity keys of a list of opportunities
KeysOf(opps) == {opps[i].id : i \in 1..Len(opps)}

\* getMockMarkets(): the demo markets
getMockMarkets ==
    <<Market(0, <<<<"U", "S">>, <<"s", "t", "r", "i", "k", "e", "s">>, <<"I", "r", "a", "n">>, <<"b", "y">>, <<"M", "a", "r", "c", "h">>, <<"2", "0", "2", "6">>>>, 2,
             ArrayP(<<TextE(15), TextE(82)>>), Absent, Absent),
      Market(0, <<<<"U", "S">>, <<"s", "t", "r", "i", "k", "e", "s">>, <<"I", "r", "a", "n">>, <<"b", "y">>, <<"A", "p", "r", "i", "l">>, <<"2", "0", "2", "6">>>>, 2,
             ArrayP(<<TextE(22), TextE(75)>>), Absent, Absent),
      Market(0, <<<<"U", "S">>, <<"s", "t", "r", "i", "k", "e", "s">>, <<"I", "r", "a", "n">>, <<"b", "y">>, <<"J", "u", "n", "e">>, <<"2", "0", "2", "6">>>>, 2,
             ArrayP(<<TextE(35), TextE(62)>>), Absent, Absent),
      Market(0, <<<<"B", "i", "t", "c", "o", "i", "n">>, <<"a", "b", "o", "v", "e">>, <<"e", "n", "d">>, <<"o", "f">>, <<"2", "0", "2", "6">>>>, 2,
             ArrayP(<<TextE(45), TextE(52)>>), Absent, Absent),
      Market(0, <<<<"W", "h", "o">>, <<"w", "i", "n", "s">>, <<"2", "0", "2", "8">>, <<"E", "l", "e", "c", "t", "i", "o", "n">>>>, 5,
             ArrayP(<<TextE(35), TextE(30), TextE(15), TextE(10), TextE(5)>>),
             Absent, Absent)>>

----------------------------------------------------------------------------
VARIABLES
    \* one call of a detection rule
    dRule,      \* the rule called: "basic", "correlated" or "exclusive"
    dInput,     \* its argument: the market (a one-element list) or the group's markets
    dOut,       \* what it returned
    dPc,        \* "off", "ready", "done"
    \* one call of findRelatedMarkets
    gMarkets,   \* its argument
    gOut,       \* what it returned, or that it threw
    gPc,        \* "off", "ready", "done"
    \* extractBaseEvent on the date variants of one base text
    nText,      \* the base text X
    nKeys,      \* the keys of "X by March 2026", "X by April 2026", "X by June 2026"
    nPc,        \* "off", "ready", "done"
    \* one run of scan()
    sFetched,   \* what getMarkets settled to: a response, or a rejection
    sOut,       \* the opportunities list of the run, or that it raised
    sPc,        \* "off", "ready", "done"
    \* the watcher
    pc,                 \* where main / watchCycle stands
    markets,            \* what getMarkets resolved to in this cycle
    opportunities,      \* the cycle's opportunities list
    idx,                \* position of the report loop in opportunities
    seenOpportunities,  \* the tracker: the Set of identity keys
    \* history of the watcher, kept for the properties only
    cycleEnd,           \* how the last cycle ended
    alerted,            \* keys handed to sendTelegramAlert since the last clear
    realerted,          \* keys handed to it again since the last clear
    failed,             \* keys whose delivery failed since the last clear
    cycleAlerted,       \* keys handed to sendTelegramAlert in this cycle
    appeared,           \* keys at or above the threshold in an earlier cycle
                        \* since the last clear
    dropped             \* keys removed by the clear that ended the previous cycle

detectVars == <<dRule, dInput, dOut, dPc>>
groupVars == <<gMarkets, gOut, gPc>>
normVars == <<nText, nKeys, nPc>>
scanVars == <<sFetched, sOut, sPc>>

watchVars == <<pc, markets, opportunities, idx, seenOpportunities>>
historyVars == <<cycleEnd, alerted, realerted, failed, cycleAlerted, appeared, dropped>>

vars == <<detectVars, groupVars, normVars, scanVars, watchVars, historyVars>>

----------------------------------------------------------------------------
(* Inputs of the detection rules *)

\* longest outcomePrices sequence drawn (the mock markets are added as they are)
MaxPrices == 3
\* largest group drawn
MaxGroup == 3

PriceEntries == {Absent, NumE(0), TextE(30), TextE(50), TextE(70), Junk}

PriceFields ==
    {ArrayP(items) : items \in SeqsUpTo(PriceEntries, MaxPrices)}
    \cup {TextP(items) : items \in SeqsUpTo({TextE(30), NumE(30), Junk}, MaxPrices)}
    \cup {BadTextP, AbsentP}

DetectMarkets ==
    {Market(0, <<>>, n, p, y, no) :
        n \in {0} \cup (2..(MaxPrices + 1)), p \in PriceFields,
        y \in {Absent, TextE(20)}, no \in {Absent, TextE(20)}}
    \cup {getMockMarkets[i] : i \in 1..Len(getMockMarkets)}

\* the markets of a group differ in the one entry the correlated rule reads
GroupMarkets ==
    {Market(0, <<>>, 2, ArrayP(<<TextE(50), e>>), Absent, no) :
        e \in {Absent, NumE(0), TextE(30), TextE(62), TextE(75), TextE(82), Junk},
        no \in {Absent, TextE(20)}}

DetectIdle == dRule = "none" /\ dInput = <<>> /\ dOut = NoSignal /\ dPc = "off"

GroupIdle == gMarkets = <<>> /\ gOut = [threw |-> FALSE, groups |-> <<>>] /\ gPc = "off"

NormIdle == nText = <<>> /\ nKeys = <<>> /\ nPc = "off"

ScanIdle ==
    /\ sFetched = [ok |-> FALSE, body |-> NoFeed]
    /\ sOut = [threw |-> FALSE, opportunities |-> <<>>]
    /\ sPc = "off"

WatchIdle ==
    /\ pc = "off" /\ markets = NoFeed /\ opportunities = <<>>
    /\ idx = 0 /\ seenOpportunities = {}
    /\ cycleEnd = "none" /\ alerted = {} /\ realerted = {} /\ failed = {}
    /\ cycleAlerted = {} /\ appeared = {} /\ dropped = {}

DetectInit ==
    /\ GroupIdle /\ NormIdle /\ ScanIdle /\ WatchIdle
    /\ dPc = "ready"
    /\ dOut = NoSignal
    /\ \/ dRule \in {"basic", "exclusive"} /\ dInput \in {<<m>> : m \in DetectMarkets}
       \/ dRule = "correlated" /\ dInput \in SeqsUpTo(GroupMarkets, MaxGroup)

DetectBasic ==
    /\ dPc = "ready" /\ dRule = "basic"
    /\ dOut' = detectBasicArb(dInput[1])
    /\ dPc' = "done"
    /\ UNCHANGED <<dRule, dInput, groupVars, normVars, scanVars, watchVars, historyVars>>

DetectCorrelated ==
    /\ dPc = "ready" /\ dRule = "correlated"
    /\ dOut' = detectCorrelatedArb([event |-> <<>>, markets |-> dInput])
    /\ dPc' = "done"
    /\ UNCHANGED <<dRule, dInput, groupVars, normVars, scanVars, watchVars, historyVars>>

DetectExclusive ==
    /\ dPc = "ready" /\ dRule = "exclusive"
    /\ dOut' = detectMutuallyExclusiveArb(dInput[1])
    /\ dPc' = "done"
    /\ UNCHANGED <<dRule, dInput, groupVars, normVars, scanVars, watchVars, historyVars>>

DetectNext == DetectBasic \/ DetectCorrelated \/ DetectExclusive

DetectSpec == DetectInit /\ [][DetectNext]_vars

----------------------------------------------------------------------------
(* The detection rules against their contract *)

\* a price as the contract reads it: the number given, 0.5 when the entry is
\* absent or not a number
ContractPrice(e) == IF e.kind \in {"num", "text"} THEN e.v ELSE ONE \div 2

\* price[i] of a market (i = 1 is the yes price, i = 2 the no price): the i-th
\* entry of its price sequence, literal or text-encoded; a market whose
\* sequence has no such entry is read by its yes_price / no_price field
ContractPriceAt(m, i) ==
    IF m.outcomePrices.kind \in {"array", "text"} /\ i <= Len(m.outcomePrices.items)
       /\ m.outcomePrices.items[i] # Absent
    THEN ContractPrice(m.outcomePrices.items[i])
    ELSE ContractPrice(IF i = 1 THEN m.yes_price ELSE m.no_price)

RECURSIVE SumInts(_)
SumInts(s) == IF s = <<>> THEN 0 ELSE s[1] + SumInts(Tail(s))

\* C3: detectBasicArb returns no signal if and only if yes + no >= 1, with
\* yes = price[0] and no = price[1] (0.5 each when absent); otherwise it returns
\* an Opportunity with edge 1 - (yes + no), cost yes + no and payout 1.
C3_BasicRuleContract ==
    (dPc = "done" /\ dRule = "basic") =>
        LET yes == ContractPriceAt(dInput[1], 1)
            no == ContractPriceAt(dInput[1], 2)
        IN IF yes + no >= ONE THEN ~dOut.signal
           ELSE /\ dOut.signal
                /\ dOut.edge = Num(ONE - (yes + no))
                /\ dOut.cost = Num(yes + no)
                /\ dOut.payout = Num(ONE)

\* C4: detectCorrelatedArb returns no signal for fewer than 2 markets; for
\* n >= 2, with cost the sum of the markets' price[1], minPayout = n - 1 and
\* edge = (minPayout - cost) / n, it returns an Opportunity with that edge, cost
\* and payout = minPayout if and only if edge > 0.
C4_CorrelatedRuleContract ==
    (dPc = "done" /\ dRule = "correlated") =>
        LET n == Len(dInput)
            cost == SumInts([i \in 1..n |-> ContractPriceAt(dInput[i], 2)])
            minPayout == (n - 1) * ONE
        IN IF n < 2 \/ minPayout - cost <= 0 THEN ~dOut.signal
           ELSE /\ dOut.signal
                /\ dOut.edge = DivBy(Num(minPayout - cost), n)
                /\ dOut.cost = Num(cost)
                /\ dOut.payout = Num(minPayout)

\* C5: detectMutuallyExclusiveArb returns no signal for fewer than 3 outcomes,
\* for a price field that is neither a sequence nor decodable text, or when the
\* number of prices differs from the number of outcomes; otherwise it returns an
\* Opportunity if and only if 1 - (sum of all prices) > 0, with that edge and
\* payout 1.  (It raises no error: the rule always returns.)
C5_ExclusiveRuleContract ==
    (dPc = "done" /\ dRule = "exclusive") =>
        LET m == dInput[1]
            p == m.outcomePrices
            numeric == \A i \in 1..Len(p.items) : p.items[i].kind \in {"num", "text"}
            sum == SumInts([i \in 1..Len(p.items) |-> p.items[i].v])
        IN IF \/ m.outcomes < 3
              \/ p.kind \notin {"array", "text"}
              \/ Len(p.items) # m.outcomes
           THEN ~dOut.signal
           ELSE /\ dOut.signal <=> (numeric /\ ONE - sum > 0)
                /\ dOut.signal => (dOut.edge = Num(ONE - sum) /\ dOut.payout = Num(ONE))

----------------------------------------------------------------------------
(* One call of findRelatedMarkets on a bounded list of markets *)

\* longest list of markets drawn
MaxList == 3

\* the questions the markets of a list are drawn from
Questions ==
    {<<W_IRAN, W_BY, W_MARCH, W_2026>>, <<W_IRAN, W_BY, W_APRIL, W_2026>>,
     <<W_BITCOIN>>, <<W_YES, W_BITCOIN>>, <<W_CONSTRUCTOR>>, <<W_2026>>, <<>>}

\* the market at position i of a list carries id i
GroupInit ==
    /\ DetectIdle /\ NormIdle /\ ScanIdle /\ WatchIdle
    /\ gPc = "ready"
    /\ gOut = [threw |-> FALSE, groups |-> <<>>]
    /\ \E qs \in SeqsUpTo(Questions, MaxList) :
          gMarkets = [i \in 1..Len(qs) |-> Market(i, qs[i], 2, AbsentP, Absent, Absent)]

Group ==
    /\ gPc = "ready"
    /\ gOut' = findRelatedMarkets(gMarkets)
    /\ gPc' = "done"
    /\ UNCHANGED <<gMarkets, detectVars, normVars, scanVars, watchVars, historyVars>>

GroupNext == Group

GroupSpec == GroupInit /\ [][GroupNext]_vars

\* C6: findRelatedMarkets completes and returns only groups of 2 or more
\* markets; each group holds exactly the input markets sharing one canonical
\* key, every key shared by at least 2 markets yields exactly one group, and no
\* market is in two groups.
C6_GroupingContract ==
    gPc = "done" =>
        LET key(m) == extractBaseEvent(m.question)
            G == gOut.groups
            sharing(k) == {i \in 1..Len(gMarkets) : key(gMarkets[i]) = k}
            members(g) == {G[g].markets[j] : j \in 1..Len(G[g].markets)}
        IN /\ ~gOut.threw
           /\ \A g \in 1..Len(G) :
                 /\ Len(G[g].markets) >= 2
                 /\ members(g) = {gMarkets[i] : i \in sharing(G[g].event)}
                 /\ Len(G[g].markets) = Cardinality(sharing(G[g].event))
           /\ \A i \in 1..Len(gMarkets) :
                 Cardinality(sharing(key(gMarkets[i]))) >= 2 =>
                    Cardinality({g \in 1..Len(G) : G[g].event = key(gMarkets[i])}) = 1
           /\ \A g, h \in 1..Len(G) : g # h => members(g) \cap members(h) = {}

----------------------------------------------------------------------------
(* extractBaseEvent on the three date variants of a base text *)

\* most words in a base text
MaxWords == 3

Vocabulary ==
    {W_IRAN, W_BY, W_IN, W_MARCH, W_MAY, W_2026, W_15, W_3RD, W_YES, W_LONG}

NormInit ==
    /\ DetectIdle /\ GroupIdle /\ ScanIdle /\ WatchIdle
    /\ nPc = "ready"
    /\ nKeys = <<>>
    /\ nText \in SeqsUpTo(Vocabulary, MaxWords)

Normalize ==
    /\ nPc = "ready"
    /\ nKeys' = <<extractBaseEvent(nText \o <<W_BY, W_MARCH, W_2026>>),
                  extractBaseEvent(nText \o <<W_BY, W_APRIL, W_2026>>),
                  extractBaseEvent(nText \o <<W_BY, W_JUNE, W_2026>>)>>
    /\ nPc' = "done"
    /\ UNCHANGED <<nText, detectVars, groupVars, scanVars, watchVars, historyVars>>

NormNext == Normalize

NormSpec == NormInit /\ [][NormNext]_vars

\* C7: for every base text X the keys of "X by March 2026", "X by April 2026"
\* and "X by June 2026" are equal, and every key is at most 50 characters long.
C7_DateVariantsShareKey ==
    nPc = "done" =>
        /\ nKeys[1] = nKeys[2] /\ nKeys[2] = nKeys[3]
        /\ \A i \in 1..3 : Len(nKeys[i]) <= KEY_MAX

\* a base text long enough for the key to be cut at 50 characters, whose date
\* phrase was removed before the cut
C7_Witness ==
    /\ nPc = "done"
    /\ Len(JoinWords(nText)) < KEY_MAX
    /\ Len(JoinWords(nText \o <<W_BY, W_MARCH, W_2026>>)) > KEY_MAX
    /\ Len(nKeys[1]) = KEY_MAX

\* C13: every Opportunity a rule returns has an edge that is a number
\* strictly greater than 0.
C13_ReturnedEdgePositive ==
    (dPc = "done" /\ dOut.signal) => (~dOut.edge.nan /\ dOut.edge.num > 0)

\* C14: the prices the basic and the correlated rule compute the cost from
\* are the entries as given, with 0.5 in the place of exactly the entries that
\* are missing or no number.
C14_DefaultOnlyForMalformed ==
    (dPc = "done" /\ dRule \in {"basic", "correlated"} /\ dOut.signal) =>
        /\ dRule = "basic" =>
              dOut.prices = <<Num(ContractPriceAt(dInput[1], 1)),
                              Num(ContractPriceAt(dInput[1], 2))>>
        /\ dRule = "correlated" =>
              dOut.prices = [i \in 1..Len(dInput) |-> Num(ContractPriceAt(dInput[i], 2))]
        /\ dOut.cost = SumNums(dOut.prices)

----------------------------------------------------------------------------
(* One run of scan().                                                      *)

\* most markets in a response drawn for scan()
MaxScan == 3

\* the fifth mock market: five outcomes priced 0.35, 0.30, 0.15, 0.10, 0.05
Election == getMockMarkets[5]
\* a binary market with edge 0.01, below the threshold
Thin == Market(5, <<W_IRAN, W_BY, W_JUNE, W_2026>>, 2,
               ArrayP(<<TextE(50), TextE(49)>>), Absent, Absent)
\* a binary market with edge 0.02, the threshold itself
AtThreshold == Market(6, <<W_LONG>>, 2, ArrayP(<<TextE(49), TextE(49)>>), Absent, Absent)
\* a binary market whose first price is no number
Unpriced == Market(7, <<W_MAY>>, 2, ArrayP(<<Junk, TextE(50)>>), Absent, Absent)

ScanMarkets == {IranMarch, IranApril, Election, Thin, AtThreshold, Unpriced, Constructor}

\* what getMarkets can settle to: a listed response, a response that is no
\* array, a rejection
ScanFetches ==
    {[ok |-> TRUE, body |-> Feed(TRUE, ms, 0)] : ms \in SeqsUpTo(ScanMarkets, MaxScan)}
    \cup {[ok |-> TRUE, body |-> Feed(FALSE, <<>>, 0)], [ok |-> FALSE, body |-> NoFeed]}

ScanInit ==
    /\ DetectIdle /\ GroupIdle /\ NormIdle /\ WatchIdle
    /\ sFetched \in ScanFetches
    /\ sOut = [threw |-> FALSE, opportunities |-> <<>>]
    /\ sPc = "ready"

\* getMarkets() resolved: scan() runs on the response
ScanFetched ==
    /\ sPc = "ready" /\ sFetched.ok
    /\ sOut' = scan(sFetched.body.iterable, sFetched.body.focus)
    /\ sPc' = "done"
    /\ UNCHANGED <<sFetched, detectVars, groupVars, normVars, watchVars, historyVars>>

\* getMarkets() rejected: scan() runs on the mock markets
ScanMock ==
    /\ sPc = "ready" /\ ~sFetched.ok
    /\ sOut' = scan(TRUE, getMockMarkets)
    /\ sPc' = "done"
    /\ UNCHANGED <<sFetched, detectVars, groupVars, normVars, watchVars, historyVars>>

ScanNext == ScanFetched \/ ScanMock

ScanSpec == ScanInit /\ [][ScanNext]_vars

\* the markets the run of scan() worked on
ScannedMarkets == IF sFetched.ok THEN sFetched.body.focus ELSE getMockMarkets

\* the results of the three rules over the scanned markets and their groups
RuleResults ==
    LET ms == ScannedMarkets
        groups == findRelatedMarkets(ms).groups
    IN [i \in 1..Len(ms) |-> detectBasicArb(ms[i])]
       \o [i \in 1..Len(groups) |-> detectCorrelatedArb(groups[i])]
       \o [i \in 1..Len(ms) |-> detectMutuallyExclusiveArb(ms[i])]

\* how often o occurs in the list
Occurrences(list, o) == Cardinality({i \in 1..Len(list) : list[i] = o})

\* edge >= 0.02, which no NaN is
AtLeastMinEdge(o) == o.signal /\ ~o.edge.nan /\ o.edge.num >= SCAN_MIN_EDGE * o.edge.den

\* C12: the list of a scan that did not raise holds every rule result whose
\* edge is at least the threshold as often as the rules returned it and nothing
\* else, and each entry's edge is at least the edge of the entry after it.
C12_ScanFilteredAndSorted ==
    (sPc = "done" /\ ~sOut.threw) =>
        LET out == sOut.opportunities
        IN /\ \A i \in 1..Len(out) :
                 /\ AtLeastMinEdge(out[i])
                 /\ Occurrences(out, out[i]) = Occurrences(RuleResults, out[i])
           /\ \A i \in 1..Len(RuleResults) :
                 AtLeastMinEdge(RuleResults[i]) =>
                     Occurrences(out, RuleResults[i]) = Occurrences(RuleResults, RuleResults[i])
           /\ \A i \in 1..(Len(out) - 1) :
                 out[i].edge.num * out[i + 1].edge.den >= out[i + 1].edge.num * out[i].edge.den

\* a scan whose sort moved a correlated result before a basic one, and whose
\* threshold dropped a rule result
C12_Witness ==
    /\ sPc = "done" /\ ~sOut.threw
    /\ Len(sOut.opportunities) >= 2
    /\ sOut.opportunities[1].type = "CORRELATED_DATE_ARB"
    /\ sOut.opportunities[2].type = "BASIC_ARB"
    /\ \E i \in 1..Len(RuleResults) : RuleResults[i].signal /\ ~AtLeastMinEdge(RuleResults[i])

----------------------------------------------------------------------------
(* The watcher: main and watchCycle.                                       *)
(*   pc = "fetch"        awaiting getMarkets()                             *)
(*        "basic"        the response is in; the basic loop is next        *)
(*        "correlated"   awaiting findRelatedMarkets, then the group loop  *)
(*        "report"       the report loop stands before opportunities[idx]  *)
(*        "notify"       the key was added; awaiting sendTelegramAlert     *)
(*        "housekeeping" the report loop is over                           *)
(*        "sleep"        the cycle is over; awaiting the SCAN_INTERVAL     *)
(*        "crashed"      main has ended                                    *)

\* main without the try/catch around watchCycle: the rejection ends main
AfterErrorUncaught == "crashed"

\* where main goes when watchCycle raises: its catch logs the error and the
\* loop goes on to the timer
AfterError == "sleep"

\* how sendTelegramAlert can end: without both settings it logs and returns
\* ("disabled"); with them the request is made ("sent"), and a rejection is
\* caught and logged ("error").  It never raises.
SendOutcomes == {"disabled", "sent", "error"}

\* the tracker with a failed delivery taken back
TrackerRolledBack(seen, k, outcome) == IF outcome = "error" THEN seen \ {k} ELSE seen

\* the tracker when sendTelegramAlert for key k has ended: nothing is undone
TrackerAfterSend(seen, k, outcome) == seen

\* housekeeping that evicts the keys of the full pages and keeps the rest
HousekeepingEvicts(seen) ==
    IF TrackerSize(seen) > CACHE_LIMIT
    THEN {k \in seen : k.type # "batch"}
    ELSE seen

\* housekeeping without the clear
HousekeepingKeepsAll(seen) == seen

\* the tracker after the housekeeping step
TrackerAfterHousekeeping(seen) == IF TrackerSize(seen) > CACHE_LIMIT THEN {} ELSE seen

WatchInit ==
    /\ DetectIdle /\ GroupIdle /\ NormIdle /\ ScanIdle
    /\ pc = "fetch"
    /\ markets = NoFeed /\ opportunities = <<>> /\ idx = 0
    /\ seenOpportunities = {}
    /\ cycleEnd = "none" /\ alerted = {} /\ realerted = {} /\ failed = {}
    /\ cycleAlerted = {} /\ appeared = {} /\ dropped = {}

otherVars == <<detectVars, groupVars, normVars, scanVars>>

\* getMarkets() resolves
FetchOk ==
    /\ pc = "fetch"
    /\ \E f \in Feeds : markets' = f
    /\ pc' = "basic"
    /\ UNCHANGED <<opportunities, idx, seenOpportunities, historyVars, otherVars>>

\* a fetch failure that also empties the tracker
FetchFailsForgets ==
    /\ pc = "fetch"
    /\ pc' = "sleep"
    /\ cycleEnd' = "aborted"
    /\ seenOpportunities' = {}
    /\ UNCHANGED <<markets, opportunities, idx,
                   alerted, realerted, failed, cycleAlerted, appeared, dropped, otherVars>>

\* getMarkets() rejects: the catch logs and watchCycle returns
FetchFails ==
    /\ pc = "fetch"
    /\ pc' = "sleep"
    /\ cycleEnd' = "aborted"
    /\ UNCHANGED <<markets, opportunities, idx, seenOpportunities,
                   alerted, realerted, failed, cycleAlerted, appeared, dropped, otherVars>>

\* the basic loop
BasicScan ==
    /\ pc = "basic" /\ markets.iterable
    /\ opportunities' = BasicLoop(markets)
    /\ pc' = "correlated"
    /\ UNCHANGED <<markets, idx, seenOpportunities, historyVars, otherVars>>

\* for (const market of markets) on a response that is no array: TypeError
BasicScanThrows ==
    /\ pc = "basic" /\ ~markets.iterable
    /\ pc' = AfterError
    /\ cycleEnd' = "raised"
    /\ UNCHANGED <<markets, opportunities, idx, seenOpportunities,
                   alerted, realerted, failed, cycleAlerted, appeared, dropped, otherVars>>

\* findRelatedMarkets and the group loop
CorrelatedScan ==
    /\ pc = "correlated"
    /\ ~findRelatedMarkets(markets.focus).threw
    /\ opportunities' =
          opportunities \o WatchCorrelatedScan(findRelatedMarkets(markets.focus).groups)
    /\ idx' = 1
    /\ pc' = "report"
    /\ UNCHANGED <<markets, seenOpportunities, historyVars, otherVars>>

\* findRelatedMarkets raises: watchCycle rejects with the opportunities of
\* the basic loop computed and none reported
CorrelatedScanThrows ==
    /\ pc = "correlated"
    /\ findRelatedMarkets(markets.focus).threw
    /\ pc' = AfterError
    /\ cycleEnd' = "raised"
    /\ UNCHANGED <<markets, opportunities, idx, seenOpportunities,
                   alerted, realerted, failed, cycleAlerted, appeared, dropped, otherVars>>

\* report loop: the key is in the tracker already
ReportSeen ==
    /\ pc = "report" /\ idx <= Len(opportunities)
    /\ opportunities[idx].type # "BATCH"
    /\ opportunities[idx].id \in seenOpportunities
    /\ idx' = idx + 1
    /\ UNCHANGED <<pc, markets, opportunities, seenOpportunities,
                   historyVars, otherVars>>

\* report loop: a new key is added to the tracker, the alert is built
ReportNew ==
    /\ pc = "report" /\ idx <= Len(opportunities)
    /\ opportunities[idx].type # "BATCH"
    /\ opportunities[idx].id \notin seenOpportunities
    /\ seenOpportunities' = seenOpportunities \cup {opportunities[idx].id}
    /\ pc' = "notify"
    /\ UNCHANGED <<markets, opportunities, idx, historyVars, otherVars>>

\* await sendTelegramAlert(alert)
Notify ==
    /\ pc = "notify"
    /\ \E outcome \in SendOutcomes :
          LET k == opportunities[idx].id
          IN /\ seenOpportunities' = TrackerAfterSend(seenOpportunities, k, outcome)
             /\ failed' = IF outcome = "error" THEN failed \cup {k} ELSE failed
             /\ alerted' = alerted \cup {k}
             /\ realerted' = realerted \cup ({k} \cap alerted)
             /\ cycleAlerted' = cycleAlerted \cup {k}
    /\ idx' = idx + 1
    /\ pc' = "report"
    /\ UNCHANGED <<markets, opportunities, cycleEnd, appeared, dropped,
                   otherVars>>

\* report loop over the opportunities of a full page, taken as one step: each
\* new key is added and its alert sent
ReportBatch ==
    /\ pc = "report" /\ idx <= Len(opportunities)
    /\ opportunities[idx].type = "BATCH"
    /\ \E outcome \in SendOutcomes :
          LET new == {opportunities[idx].id} \ seenOpportunities
          IN /\ seenOpportunities' = seenOpportunities \cup new
             /\ failed' = IF outcome = "error" THEN failed \cup new ELSE failed
             /\ alerted' = alerted \cup new
             /\ realerted' = realerted \cup (new \cap alerted)
             /\ cycleAlerted' = cycleAlerted \cup new
    /\ idx' = idx + 1
    /\ UNCHANGED <<pc, markets, opportunities, cycleEnd, appeared, dropped,
                   otherVars>>

\* the report loop is over
ReportDone ==
    /\ pc = "report" /\ idx > Len(opportunities)
    /\ pc' = "housekeeping"
    /\ UNCHANGED <<markets, opportunities, idx, seenOpportunities,
                   historyVars, otherVars>>

\* if (seenOpportunities.size > 1000) seenOpportunities.clear()
Housekeeping ==
    /\ pc = "housekeeping"
    /\ seenOpportunities' = TrackerAfterHousekeeping(seenOpportunities)
    /\ cycleEnd' = IF TrackerSize(seenOpportunities) > CACHE_LIMIT THEN "cleared" ELSE "complete"
    /\ dropped' = IF TrackerSize(seenOpportunities) > CACHE_LIMIT
                  THEN seenOpportunities ELSE dropped
    /\ pc' = "sleep"
    /\ UNCHANGED <<markets, opportunities, idx, alerted, realerted, failed,
                   cycleAlerted, appeared, otherVars>>

\* a timer that fires every SCAN_INTERVAL whether or not the cycle before it
\* has ended (setInterval in the place of the awaited setTimeout)
WakeOnInterval ==
    /\ pc \in {"basic", "correlated", "report", "notify", "housekeeping", "sleep"}
    /\ pc' = "fetch"
    /\ markets' = NoFeed /\ opportunities' = <<>> /\ idx' = 0
    /\ cycleAlerted' = {}
    /\ appeared' = appeared \cup KeysOf(opportunities)
    /\ dropped' = {}
    /\ UNCHANGED <<seenOpportunities, cycleEnd, alerted, realerted, failed, otherVars>>

\* the timer of main fires and the next watchCycle starts
Wake ==
    /\ pc = "sleep"
    /\ pc' = "fetch"
    /\ markets' = NoFeed /\ opportunities' = <<>> /\ idx' = 0
    /\ cycleAlerted' = {}
    /\ IF cycleEnd = "cleared"
       THEN /\ appeared' = {} /\ alerted' = {} /\ realerted' = {} /\ failed' = {}
            /\ UNCHANGED dropped
       ELSE /\ appeared' = appeared \cup KeysOf(opportunities)
            /\ dropped' = {}
            /\ UNCHANGED <<alerted, realerted, failed>>
    /\ UNCHANGED <<seenOpportunities, cycleEnd, otherVars>>

WatchNext ==
    \/ FetchOk \/ FetchFails
    \/ BasicScan \/ BasicScanThrows
    \/ CorrelatedScan \/ CorrelatedScanThrows
    \/ ReportSeen \/ ReportNew \/ Notify \/ ReportBatch \/ ReportDone
    \/ Housekeeping
    \/ Wake

Spec == WatchInit /\ [][WatchNext]_vars

(* The promises watchCycle awaits settle, its synchronous stretches run to  *)
(* their end, and the timer of main fires: weak fairness of every step.    *)
(* The grouping step is enabled exactly when pc = "correlated" (its two    *)
(* actions have complementary guards) and every step taken there leaves    *)
(* that position, so its weak fairness is written out with that state      *)
(* predicate in the place of ENABLED.                                      *)
LiveSpec ==
    /\ Spec
    /\ WF_vars(FetchOk \/ FetchFails)
    /\ WF_vars(BasicScan \/ BasicScanThrows)
    /\ ([]<>(pc # "correlated") \/ []<><<CorrelatedScan \/ CorrelatedScanThrows>>_vars)
    /\ WF_vars(ReportSeen \/ ReportNew \/ ReportBatch \/ ReportDone)
    /\ WF_vars(Notify)
    /\ WF_vars(Housekeeping)
    /\ WF_vars(Wake)

----------------------------------------------------------------------------
(* Properties of the watcher.  The history variables read:                 *)
(*   cycleAlerted  the keys forwarded to the notifier in the current cycle *)
(*   alerted       the keys forwarded since the tracker was last cleared   *)
(*   realerted     the keys forwarded more than once since then            *)
(*   appeared      the keys at or above MIN_EDGE in an earlier cycle since *)
(*                 then                                                    *)
(*   failed        the keys whose delivery failed since then               *)
(*   dropped       the keys the last clear removed, kept for one cycle     *)
(*   cycleEnd      how the last ended cycle ended                          *)

\* the keys at or above MIN_EDGE in the cycle that has just ended
AboveThreshold == KeysOf(opportunities)

\* C1: at the end of every cycle, a key that is at or above the threshold in
\* this cycle and was so in an earlier cycle since the last clear has been
\* forwarded exactly once, in an earlier cycle, and not in this one.
C1_ForwardedOnceInFirstCycle ==
    pc = "sleep" =>
        \A k \in AboveThreshold \cap appeared :
            k \in alerted /\ k \notin cycleAlerted /\ k \notin realerted

\* C2: a cycle that reaches housekeeping with more than CACHE_LIMIT keys ends
\* with an empty tracker, the next cycle starts with it empty, and at the end
\* of that next cycle every removed key that is at or above the threshold in
\* it has been forwarded in it.
C2_ClearThenForwardAgain ==
    /\ (pc = "sleep" /\ cycleEnd = "complete") => TrackerSize(seenOpportunities) <= CACHE_LIMIT
    /\ (pc \in {"sleep", "fetch"} /\ cycleEnd = "cleared") => seenOpportunities = {}
    /\ (pc = "sleep" /\ cycleEnd # "cleared") =>
           \A k \in dropped \cap AboveThreshold : k \in cycleAlerted

\* C8: a step from the fetch to the pause (the fetch failed) ends the cycle
\* as aborted with no opportunity computed, nothing forwarded and the tracker
\* as it was.
C8_FetchFailureAborts ==
    [][(pc = "fetch" /\ pc' = "sleep") =>
          /\ cycleEnd' = "aborted"
          /\ seenOpportunities' = seenOpportunities
          /\ opportunities' = <<>>
          /\ cycleAlerted' = {} /\ alerted' = alerted]_vars

\* a cycle aborted on a fetch failure with keys in the tracker
C8_Witness ==
    pc = "sleep" /\ cycleEnd = "aborted" /\ seenOpportunities # {}

\* C9: a key whose delivery failed is in the tracker until the tracker is
\* cleared, and is never forwarded a second time before that.
C9_FailedDeliveryNotRetried ==
    /\ (pc # "sleep" \/ cycleEnd # "cleared") => failed \subseteq seenOpportunities
    /\ failed \cap realerted = {}

\* a later cycle in which a key whose delivery failed is at or above the
\* threshold again and the report loop has passed it by
C9_Witness ==
    /\ pc = "housekeeping"
    /\ \E k \in failed \cap appeared : k \in AboveThreshold /\ k \notin cycleAlerted

\* C10: every cycle that starts ends in the pause, and from the pause after a
\* cycle that completed, cleared the tracker, aborted on a fetch failure or
\* raised, the next cycle starts.
C10_LoopKeepsRunning ==
    /\ (pc = "fetch") ~> (pc = "sleep")
    /\ (pc = "sleep" /\ cycleEnd = "complete") ~> (pc = "fetch")
    /\ (pc = "sleep" /\ cycleEnd = "cleared") ~> (pc = "fetch")
    /\ (pc = "sleep" /\ cycleEnd = "aborted") ~> (pc = "fetch")
    /\ (pc = "sleep" /\ cycleEnd = "raised") ~> (pc = "fetch")
    /\ []<>(pc = "fetch")

\* the cycle after one that raised part-way through has started
C10_Witness ==
    pc = "fetch" /\ cycleEnd = "raised" /\ appeared # {}

\* the steps of main and watchCycle as pairs of positions: the fetch, the
\* basic loop, the grouping with the group loop, the report loop with one
\* awaited notification per new opportunity, housekeeping, the pause
StageOrder ==
    {<<"fetch", "basic">>, <<"fetch", "sleep">>,
     <<"basic", "correlated">>, <<"basic", "sleep">>,
     <<"correlated", "report">>, <<"correlated", "sleep">>,
     <<"report", "report">>, <<"report", "notify">>, <<"notify", "report">>,
     <<"report", "housekeeping">>,
     <<"housekeeping", "sleep">>,
     <<"sleep", "fetch">>}

C15_ExclusiveRuleInWatch ==
    pc = "housekeeping" =>
        \A i \in 1..Len(markets.focus) :
            LET arb == detectMutuallyExclusiveArb(markets.focus[i])
            IN (arb.signal /\ Geq(arb.edge, MIN_EDGE)) =>
                   \E j \in 1..Len(opportunities) :
                       /\ opportunities[j].type \notin {"BASIC", "CORRELATED", "BATCH"}
                       /\ opportunities[j].id \in seenOpportunities

\* C16: no key is in the tracker unless the notifier has been invoked for it
\* since the tracker was last cleared.
C16_NotifiedBeforeTracked ==
    seenOpportunities \subseteq alerted

C18_BoundedAtCycleStart ==
    pc = "fetch" => TrackerSize(seenOpportunities) <= CACHE_LIMIT

\* a cycle starts with the tracker exactly at the bound, after a cycle that
\* raised part-way through
C18_Witness ==
    /\ pc = "fetch" /\ cycleEnd = "raised"
    /\ TrackerSize(seenOpportunities) = CACHE_LIMIT

====
